---- MODULE Spec2Model ----
(***************************************************************************)
(* Model of sample_handler.py: the header-file array reader (Filereader),   *)
(* the sample converter (Converter), the wave-file writeback (Writeback)    *)
(* and the command-line driver (__main__).                                  *)
(*                                                                         *)
(* Text is modelled as sequences of one-character strings over the         *)
(* alphabet below, so that strip/split/startswith/int are computed the way *)
(* Python computes them.  An absent optional argument (Python None) is the *)
(* empty sequence, a present one is a one-element sequence.  A function    *)
(* that can raise returns a record whose field raised names the exception  *)
(* ("none" for a normal return).  The input path is taken to exist and to  *)
(* be readable; sample values stay far inside the int16 range.             *)
(***************************************************************************)
EXTENDS Integers, Sequences, FiniteSets, TLC

VARIABLES
    pc,           \* position of the running program / function call
    lines,        \* the text lines of the input file (with line ends)
    marker,       \* read_file's startswith argument
    sample_data,  \* the Converter functions' sample_data argument
    ratio,        \* reduce_samplerate's ratio argument
    max_value,    \* twos_complement's max_value argument
    out,          \* the list a function returned
    out2,         \* the list the second twos_complement call returned
    err,          \* name of the exception that ended the run, or "none"
    args,         \* the driver's parsed arguments
    sample,       \* the driver's variable sample
    opened,       \* TRUE once the input file was opened for reading
    printed,      \* what the driver printed (<<>> if nothing)
    wav,          \* what Writeback.write_wavefile was called with (<<>> if not called)
    plotted       \* what the driver plotted (<<>> if nothing)

vars == <<pc, lines, marker, sample_data, ratio, max_value, out, out2, err,
          args, sample, opened, printed, wav, plotted>>

----------------------------------------------------------------------------
(* Bounds of the model *)

MaxLen == 4        \* longest sample sequence given to reduce_samplerate
MaxLevel == 2      \* largest sample value given to reduce_samplerate
MaxTwosLen == 2    \* longest sample sequence given to twos_complement
MaxNeg == 3        \* samples given to twos_complement go down to -MaxNeg
MaxMaxValue == 3   \* largest threshold max_value
MaxRatio == 3      \* largest ratio
MaxLines == 4      \* longest input file of the reader, in lines
MaxDataLines == 2  \* most data lines of an input file of the driver

(* Program constants *)

DefaultMaxValue == 127   \* max_value=0x7F
DefaultBits == 8         \* bits=8
SampleWidth == 16        \* dtype='int16', 16 - bits

None == <<>>
Some(x) == <<x>>

----------------------------------------------------------------------------
(* Python built-ins used by the program *)

Whitespace == {" ", "\n", "\t", "\r"}

HexChars == <<"0", "1", "2", "3", "4", "5", "6", "7", "8", "9",
              "a", "b", "c", "d", "e", "f">>

Alphabet == Whitespace \cup {HexChars[i] : i \in 1..16}
            \cup {",", "x", "s", "t", "i", "o", "n", "{", "}", ";"}

DigitValue(c) == (CHOOSE i \in 1..16 : HexChars[i] = c) - 1

Digits(base) == {HexChars[i] : i \in 1..base}

Abs(n) == IF n < 0 THEN -n ELSE n

\* a division that rounds to the nearest integer
RoundDiv(x, y) ==
    IF (x >= 0) = (y > 0)
    THEN (2 * Abs(x) + Abs(y)) \div (2 * Abs(y))
    ELSE -((2 * Abs(x) + Abs(y)) \div (2 * Abs(y)))

\* int(x / y) for integers x and y # 0: true division, truncated toward zero
TruncDiv(x, y) ==
    IF (x >= 0) = (y > 0) THEN Abs(x) \div Abs(y) ELSE -(Abs(x) \div Abs(y))

\* s.startswith(prefix)
startswith(s, prefix) ==
    Len(prefix) <= Len(s) /\ SubSeq(s, 1, Len(prefix)) = prefix

RECURSIVE lstrip(_)
lstrip(s) == IF s # <<>> /\ Head(s) \in Whitespace THEN lstrip(Tail(s)) ELSE s

RECURSIVE rstrip(_)
rstrip(s) ==
    IF s # <<>> /\ s[Len(s)] \in Whitespace
    THEN rstrip(SubSeq(s, 1, Len(s) - 1)) ELSE s

\* s.strip()
strip(s) == rstrip(lstrip(s))

\* s.split(','): never empty, ''.split(',') is ['']
RECURSIVE split(_)
split(s) ==
    IF \E k \in 1..Len(s) : s[k] = ","
    THEN LET k == CHOOSE j \in 1..Len(s) :
                     s[j] = "," /\ \A h \in 1..(j - 1) : s[h] # ","
         IN <<SubSeq(s, 1, k - 1)>> \o split(SubSeq(s, k + 1, Len(s)))
    ELSE <<s>>

\* the digits int(item, base) reads: surrounding whitespace and, in base 16,
\* a leading 0x are removed
int_body(item, base) ==
    LET t == strip(item)
    IN IF base = 16 /\ startswith(t, <<"0", "x">>) THEN SubSeq(t, 3, Len(t)) ELSE t

\* int(item, base) raises ValueError
int_raises(item, base) ==
    LET b == int_body(item, base)
    IN b = <<>> \/ \E i \in 1..Len(b) : b[i] \notin Digits(base)

RECURSIVE digits_value(_, _)
digits_value(b, base) ==
    IF b = <<>> THEN 0
    ELSE digits_value(SubSeq(b, 1, Len(b) - 1), base) * base + DigitValue(b[Len(b)])

\* int(item, base) where it does not raise
int_value(item, base) == digits_value(int_body(item, base), base)

----------------------------------------------------------------------------
(* Filereader *)

NoError == "none"

\* the list of item values, each read with int(item, base)
parse_items(items, base) == [i \in 1..Len(items) |-> int_value(items[i], base)]

\* Filereader.__process_line: the values of one line of the array, or the
\* exception it raises
process_line(line) ==
    LET stripped == strip(line)
        items0 == split(stripped)
        items == IF items0[Len(items0)] = <<>>
                 THEN SubSeq(items0, 1, Len(items0) - 1) ELSE items0
    IN IF items = <<>>
       THEN [raised |-> "IndexError", out |-> <<>>]
       ELSE IF startswith(items[1], <<"0", "x">>)
       THEN IF \E i \in 1..Len(items) : int_raises(items[i], 16)
            THEN [raised |-> "ValueError", out |-> <<>>]
            ELSE [raised |-> NoError, out |-> parse_items(items, 16)]
       ELSE IF \E d \in {"1", "2", "3", "4", "5", "6", "7", "8", "9"} :
                   startswith(items[1], <<d>>)
       THEN IF \E i \in 1..Len(items) : int_raises(items[i], 10)
            THEN [raised |-> "ValueError", out |-> <<>>]
            ELSE [raised |-> NoError, out |-> parse_items(items, 10)]
       ELSE [raised |-> NoError, out |-> <<>>]

Terminator == <<"}", ";">>

\* the loop of read_file from line i on
RECURSIVE read_loop(_, _, _, _, _)
read_loop(f, prefix, i, is_processing, acc) ==
    IF i > Len(f) THEN [raised |-> NoError, out |-> acc]
    ELSE IF startswith(f[i], prefix)
    THEN read_loop(f, prefix, i + 1, TRUE, acc)
    ELSE IF startswith(f[i], Terminator)
    THEN [raised |-> NoError, out |-> acc]
    ELSE IF is_processing
    THEN LET r == process_line(f[i])
         IN IF r.raised # NoError
            THEN [raised |-> r.raised, out |-> <<>>]
            ELSE read_loop(f, prefix, i + 1, is_processing, acc \o r.out)
    ELSE read_loop(f, prefix, i + 1, is_processing, acc)

\* Filereader.read_file on a file holding the lines f
read_file(f, prefix) == read_loop(f, prefix, 1, FALSE, <<>>)

----------------------------------------------------------------------------
(* Converter *)

\* the loop of reduce_samplerate from index i (0-based) on
RECURSIVE reduce_loop(_, _, _, _, _)
reduce_loop(data, r, i, sample_sum, acc) ==
    IF i >= Len(data) THEN [raised |-> NoError, out |-> acc]
    ELSE LET s == sample_sum + data[i + 1]
         IN IF r = 0
            THEN [raised |-> "ZeroDivisionError", out |-> <<>>]
            ELSE IF i % Abs(r) = 0
            THEN reduce_loop(data, r, i + 1, 0, Append(acc, TruncDiv(s, r)))
            ELSE reduce_loop(data, r, i + 1, s, acc)

\* Converter.reduce_samplerate
reduce_samplerate(data, r) == reduce_loop(data, r, 0, 0, <<>>)

\* a remap that sends the threshold itself to the lower half
twos_complement_ge(data, m) ==
    [i \in 1..Len(data) |->
        IF data[i] >= m THEN data[i] - (m + 1) ELSE Abs(-data[i] - 1) + m]

\* a remap that adds the complement without taking its absolute value
twos_complement_noabs(data, m) ==
    [i \in 1..Len(data) |->
        IF data[i] > m THEN data[i] - (m + 1) ELSE (-data[i] - 1) + m]

\* Converter.twos_complement; ~v is -v - 1
twos_complement(data, m) ==
    [i \in 1..Len(data) |->
        IF data[i] > m THEN data[i] - (m + 1) ELSE Abs(-data[i] - 1) + m]

----------------------------------------------------------------------------
(* Writeback *)

\* the value an int16 holds after wrapping
Int16(v) == ((v + 2 ^ (SampleWidth - 1)) % (2 ^ SampleWidth)) - 2 ^ (SampleWidth - 1)

\* Writeback.write_wavefile: the int16 frames handed to soundfile.write,
\* which refuses to create a file without a sample rate
write_wavefile(data, path, samplerate, bits) ==
    LET frames == [i \in 1..Len(data) |->
                      Int16(Int16(data[i]) * 2 ^ (SampleWidth - bits))]
    IN [raised |-> IF samplerate = None THEN "TypeError" ELSE NoError,
        data |-> data, path |-> path, samplerate |-> samplerate,
        frames |-> frames]

----------------------------------------------------------------------------
(* Sets the inputs are drawn from *)

SeqsUpTo(S, n) == UNION {[1..k -> S] : k \in 0..n}

NoArgs == [dec |-> <<>>]

\* the default of -dec and of read_file's startswith: 'static const'
DefaultDec == <<"s", "t", "a", "t", "i", "c", " ", "c", "o", "n", "s", "t">>

Markers == {DefaultDec, <<"{">>}

\* lines of a header file: the declaration, the closing line, decimal and
\* hexadecimal data lines, with and without trailing comma and line end, and
\* lines that hold no number
SampleLines ==
    { DefaultDec \o <<"\n">>,
      <<"}", ";", "\n">>,
      <<"1", ",", "2", "\n">>,
      <<"0", ",", "3", "\n">>,
      <<"0", "x", "1", "f", ",", "\n">>,
      <<"1", "0", ",", " ", "7">>,
      <<"\n">>,
      <<",", "\n">>,
      <<"{", "\n">> }

\* the lines a file is read as: only the last one can lack its line end
IsFile(f) ==
    /\ \A i \in 1..Len(f) : \A j \in 1..Len(f[i]) : f[i][j] \in Alphabet
    /\ \A i \in 1..(Len(f) - 1) : f[i][Len(f[i])] = "\n"

\* data lines of the driver's input files, all values in 0..255, and a
\* blank line
DriverLines ==
    { <<"\n">>,
      <<"2", "5", "5", ",", "1", "\n">>,
      <<"1", "2", "7", ",", "1", "2", "8", ",", "\n">>,
      <<"0", "x", "c", "8", ",", "0", "\n">> }

DriverFiles ==
    { <<DefaultDec \o <<"\n">>>> \o d \o <<<<"}", ";", "\n">>>> :
        d \in SeqsUpTo(DriverLines, MaxDataLines) }

----------------------------------------------------------------------------
(* Converter.twos_complement, applied once and then again to its result *)

InitTwos ==
    /\ pc = "start"
    /\ sample_data \in SeqsUpTo(-MaxNeg..(2 * MaxMaxValue + 2), MaxTwosLen)
    /\ max_value \in -2..MaxMaxValue
    /\ ratio = None
    /\ out = <<>> /\ out2 = <<>> /\ err = NoError
    /\ lines = <<>> /\ marker = <<>> /\ args = NoArgs /\ sample = <<>>
    /\ opened = FALSE /\ printed = None /\ wav = None /\ plotted = None

TwosOnce ==
    /\ pc = "start"
    /\ out' = twos_complement(sample_data, max_value)
    /\ pc' = "once"
    /\ UNCHANGED <<lines, marker, sample_data, ratio, max_value, out2, err,
                   args, sample, opened, printed, wav, plotted>>

TwosTwice ==
    /\ pc = "once"
    /\ out2' = twos_complement(out, max_value)
    /\ pc' = "twice"
    /\ UNCHANGED <<lines, marker, sample_data, ratio, max_value, out, err,
                   args, sample, opened, printed, wav, plotted>>

NextTwos == TwosOnce \/ TwosTwice

SpecTwos == InitTwos /\ [][NextTwos]_vars

----------------------------------------------------------------------------
(* Converter.reduce_samplerate *)

\* the worked example of the reduction: [1, 2, 3, 4, 5] with ratio 2
ExampleInput == <<1, 2, 3, 4, 5>>

InitReduce ==
    /\ pc = "start"
    /\ sample_data \in SeqsUpTo(-1..MaxLevel, MaxLen) \cup {ExampleInput}
    /\ ratio \in -2..MaxRatio
    /\ max_value = None
    /\ out = <<>> /\ out2 = <<>> /\ err = NoError
    /\ lines = <<>> /\ marker = <<>> /\ args = NoArgs /\ sample = <<>>
    /\ opened = FALSE /\ printed = None /\ wav = None /\ plotted = None

Reduce ==
    /\ pc = "start"
    /\ LET r == reduce_samplerate(sample_data, ratio)
       IN /\ out' = r.out
          /\ err' = r.raised
          /\ pc' = IF r.raised = NoError THEN "returned" ELSE "raised"
    /\ UNCHANGED <<lines, marker, sample_data, ratio, max_value, out2,
                   args, sample, opened, printed, wav, plotted>>

NextReduce == Reduce

SpecReduce == InitReduce /\ [][NextReduce]_vars

----------------------------------------------------------------------------
(* Filereader.read_file *)

InitRead ==
    /\ pc = "start"
    /\ lines \in {f \in SeqsUpTo(SampleLines, MaxLines) : IsFile(f)}
    /\ marker \in Markers
    /\ sample_data = <<>> /\ ratio = None /\ max_value = None
    /\ out = <<>> /\ out2 = <<>> /\ err = NoError
    /\ args = NoArgs /\ sample = <<>>
    /\ opened = FALSE /\ printed = None /\ wav = None /\ plotted = None

Read ==
    /\ pc = "start"
    /\ opened' = TRUE
    /\ LET r == read_file(lines, marker)
       IN /\ out' = r.out
          /\ err' = r.raised
          /\ pc' = IF r.raised = NoError THEN "returned" ELSE "raised"
    /\ UNCHANGED <<lines, marker, sample_data, ratio, max_value, out2,
                   args, sample, printed, wav, plotted>>

NextRead == Read

SpecRead == InitRead /\ [][NextRead]_vars

----------------------------------------------------------------------------
(* The driver: python sample_handler path [-dec] [-cut] [-r] [-t] [-p]     *)
(* [-plt] [-wb] [-sr]                                                      *)

\* bool(x) of an optional integer argument
Truthy(x) == x # None /\ x[1] # 0

\* bool(x) of an optional string argument
TruthyStr(x) == x # None /\ x[1] # ""

\* sample[:-cut]
CutTail(s, cut) ==
    IF cut > 0
    THEN SubSeq(s, 1, IF Len(s) > cut THEN Len(s) - cut ELSE 0)
    ELSE SubSeq(s, 1, IF Len(s) > -cut THEN -cut ELSE Len(s))

InitDriver ==
    /\ pc = "parse"
    /\ lines \in DriverFiles
    /\ args \in [dec  : {DefaultDec},
                 cut  : {None, Some(1), Some(-1)},
                 ratio: {None} \cup {Some(r) : r \in -1..(MaxRatio - 1)},
                 t    : BOOLEAN,
                 p    : BOOLEAN,
                 plt  : BOOLEAN,
                 wb   : {None, Some("writeback.wav")},
                 sr   : {None, Some(5512)}]
    /\ marker = <<>> /\ sample_data = <<>> /\ ratio = None /\ max_value = None
    /\ out = <<>> /\ out2 = <<>> /\ err = NoError
    /\ sample = <<>>
    /\ opened = FALSE /\ printed = None /\ wav = None /\ plotted = None

ParseArgs ==
    /\ pc = "parse"
    /\ IF "wb" \in DOMAIN args /\ "sr" \notin DOMAIN args
       THEN err' = "usage" /\ pc' = "exit"
       ELSE err' = err /\ pc' = "read"
    /\ UNCHANGED <<lines, marker, sample_data, ratio, max_value, out, out2,
                   args, sample, opened, printed, wav, plotted>>

DriverRead ==
    /\ pc = "read"
    /\ opened' = TRUE
    /\ LET r == read_file(lines, args.dec)
       IN IF r.raised = NoError
          THEN sample' = r.out /\ err' = err /\ pc' = "cut"
          ELSE sample' = sample /\ err' = r.raised /\ pc' = "exit"
    /\ UNCHANGED <<lines, marker, sample_data, ratio, max_value, out, out2,
                   args, printed, wav, plotted>>

DriverCut ==
    /\ pc = "cut"
    /\ sample' = IF Truthy(args.cut) THEN CutTail(sample, args.cut[1]) ELSE sample
    /\ pc' = "ratio"
    /\ UNCHANGED <<lines, marker, sample_data, ratio, max_value, out, out2, err,
                   args, opened, printed, wav, plotted>>

DriverRatio ==
    /\ pc = "ratio"
    /\ IF Truthy(args.ratio)
       THEN LET r == reduce_samplerate(sample, args.ratio[1])
            IN IF r.raised = NoError
               THEN sample' = r.out /\ err' = err /\ pc' = "t"
               ELSE sample' = sample /\ err' = r.raised /\ pc' = "exit"
       ELSE sample' = sample /\ err' = err /\ pc' = "t"
    /\ UNCHANGED <<lines, marker, sample_data, ratio, max_value, out, out2,
                   args, opened, printed, wav, plotted>>

DriverTwos ==
    /\ pc = "t"
    /\ sample' = IF args.t THEN twos_complement(sample, DefaultMaxValue) ELSE sample
    /\ pc' = "print"
    /\ UNCHANGED <<lines, marker, sample_data, ratio, max_value, out, out2, err,
                   args, opened, printed, wav, plotted>>

DriverPrint ==
    /\ pc = "print"
    /\ printed' = IF args.p THEN Some([sample |-> sample, length |-> Len(sample)])
                  ELSE printed
    /\ pc' = "wb"
    /\ UNCHANGED <<lines, marker, sample_data, ratio, max_value, out, out2, err,
                   args, sample, opened, wav, plotted>>

DriverWriteback ==
    /\ pc = "wb"
    /\ IF TruthyStr(args.wb)
       THEN LET w == write_wavefile(twos_complement(sample, DefaultMaxValue),
                                    args.wb[1], args.sr, DefaultBits)
            IN /\ wav' = Some(w)
               /\ err' = w.raised
               /\ pc' = IF w.raised = NoError THEN "plt" ELSE "exit"
       ELSE wav' = wav /\ err' = err /\ pc' = "plt"
    /\ UNCHANGED <<lines, marker, sample_data, ratio, max_value, out, out2,
                   args, sample, opened, printed, plotted>>

DriverPlot ==
    /\ pc = "plt"
    /\ plotted' = IF args.plt THEN Some(sample) ELSE plotted
    /\ pc' = "done"
    /\ UNCHANGED <<lines, marker, sample_data, ratio, max_value, out, out2, err,
                   args, sample, opened, printed, wav>>

NextDriver ==
    \/ ParseArgs
    \/ DriverRead
    \/ DriverCut
    \/ DriverRatio
    \/ DriverTwos
    \/ DriverPrint
    \/ DriverWriteback
    \/ DriverPlot

SpecDriver == InitDriver /\ [][NextDriver]_vars

----------------------------------------------------------------------------
(* Properties of Converter.twos_complement, under SpecTwos *)

InValidRange(v) == v \in 0..(2 * max_value + 1)

ValidInput ==
    max_value >= 0 /\ \A i \in 1..Len(sample_data) : InValidRange(sample_data[i])

\* C1: on the valid range (max_value >= 0, every value in 0..2*max_value+1)
\* twos_complement applied twice with the same max_value returns the input,
\* and the intermediate values lie in 0..2*max_value+1 as well.
C1_SelfInverse ==
    (pc = "twice" /\ ValidInput) =>
        /\ out2 = sample_data
        /\ \A i \in 1..Len(out) : InValidRange(out[i])

C1_Witness ==
    /\ pc = "twice" /\ ValidInput
    /\ \E i, j \in 1..Len(sample_data) :
           sample_data[i] > max_value /\ sample_data[j] <= max_value
    /\ out # sample_data
    /\ out2 = sample_data

\* C9 as stated: for every integer v and every max_value, no error is raised,
\* v maps to v - max_value - 1 when v > max_value and to v + max_value + 1
\* when v <= max_value, and the output is as long as the input, element by
\* element.
C9_AsStated ==
    pc \in {"once", "twice"} =>
        /\ err = NoError
        /\ Len(out) = Len(sample_data)
        /\ \A i \in 1..Len(sample_data) :
               out[i] = IF sample_data[i] > max_value
                        THEN sample_data[i] - max_value - 1
                        ELSE sample_data[i] + max_value + 1

\* C9 amended: for every integer v and every max_value, no error is raised,
\* v maps to v - max_value - 1 when v > max_value, to v + max_value + 1 when
\* -1 <= v <= max_value and to max_value - v - 1 when v <= max_value and
\* v < -1; the output is as long as the input, element by element.
C9_Remap ==
    pc \in {"once", "twice"} =>
        /\ err = NoError
        /\ Len(out) = Len(sample_data)
        /\ \A i \in 1..Len(sample_data) :
               out[i] = IF sample_data[i] > max_value
                        THEN sample_data[i] - max_value - 1
                        ELSE IF sample_data[i] >= -1
                        THEN sample_data[i] + max_value + 1
                        ELSE max_value - sample_data[i] - 1

C9_Witness ==
    /\ pc = "once"
    /\ Len(sample_data) = 2
    /\ sample_data[1] < -1 /\ sample_data[1] <= max_value
    /\ sample_data[2] > max_value
    /\ out[1] = max_value - sample_data[1] - 1
    /\ out[2] = sample_data[2] - max_value - 1

----------------------------------------------------------------------------
(* Properties of Converter.reduce_samplerate, under SpecReduce *)

RECURSIVE SumRange(_, _, _)
\* s[lo] + ... + s[hi], indices counted from 1
SumRange(s, lo, hi) == IF lo > hi THEN 0 ELSE s[lo] + SumRange(s, lo + 1, hi)

NonNegative(s) == \A i \in 1..Len(s) : s[i] >= 0

\* C2 as stated: for a positive ratio r the result has exactly floor(n/r)
\* elements.
C2_AsStated ==
    (pc # "start" /\ ratio > 0) =>
        pc = "returned" /\ Len(out) = Len(sample_data) \div ratio

\* C3: for non-negative samples and a positive ratio r one value is emitted
\* at each index i (from 0) with i mod r = 0, in index order: the first is
\* floor(s[0]/r), the k-th (k >= 1) is floor((s[(k-1)r+1] + ... + s[kr]) / r),
\* later elements contribute nothing; [1,2,3,4,5] with r = 2 gives [0,2,4].
C3_Windows ==
    (pc # "start" /\ ratio > 0 /\ NonNegative(sample_data)) =>
        /\ pc = "returned"
        /\ Len(out) = Cardinality({i \in 0..(Len(sample_data) - 1) : i % ratio = 0})
        /\ \A k \in 0..(Len(out) - 1) :
               out[k + 1] =
                   IF k = 0 THEN sample_data[1] \div ratio
                   ELSE SumRange(sample_data, (k - 1) * ratio + 2, k * ratio + 1)
                            \div ratio
        /\ (sample_data = ExampleInput /\ ratio = 2) => out = <<0, 2, 4>>

C3_Witness ==
    /\ pc = "returned"
    /\ sample_data = ExampleInput /\ ratio = 2
    /\ out = <<0, 2, 4>>

----------------------------------------------------------------------------
(* Properties of Filereader.read_file, under SpecRead *)

IsMarkerLine(l) == startswith(l, marker)

IsTerminatorLine(l) == startswith(l, Terminator)

HasMarker == \E i \in 1..Len(lines) : IsMarkerLine(lines[i])

\* index of the first line that starts with the marker
FirstMarker ==
    CHOOSE i \in 1..Len(lines) :
        IsMarkerLine(lines[i]) /\ \A j \in 1..(i - 1) : ~IsMarkerLine(lines[j])

\* index of the first line after the marker line that starts with '};', or
\* one past the last line
FirstTerminator ==
    CHOOSE i \in (FirstMarker + 1)..(Len(lines) + 1) :
        /\ i <= Len(lines) => IsTerminatorLine(lines[i])
        /\ \A j \in (FirstMarker + 1)..(i - 1) : ~IsTerminatorLine(lines[j])

RECURSIVE ParsedValues(_, _)
\* the values parsed from lines lo..hi, in line order
ParsedValues(lo, hi) ==
    IF lo > hi THEN <<>>
    ELSE process_line(lines[lo]).out \o ParsedValues(lo + 1, hi)

\* C4 as stated: read_file returns the values parsed from exactly the lines
\* strictly after the first marker line and strictly before the first '};'
\* line that follows it; lines before the marker never stop the scan; without
\* a marker line the result is empty.
C4_AsStated ==
    pc = "returned" =>
        out = IF HasMarker
              THEN ParsedValues(FirstMarker + 1, FirstTerminator - 1)
              ELSE <<>>

\* the items of a line as __process_line splits them
Items(l) ==
    LET items0 == split(strip(l))
    IN IF items0[Len(items0)] = <<>>
       THEN SubSeq(items0, 1, Len(items0) - 1) ELSE items0

IsDecimalLiteral(t) ==
    strip(t) # <<>> /\ \A i \in 1..Len(strip(t)) : strip(t)[i] \in Digits(10)

\* a line of comma-separated decimal literals of non-negative integers
IsDecimalLine(l) ==
    Items(l) # <<>> /\ \A i \in 1..Len(Items(l)) : IsDecimalLiteral(Items(l)[i])

RECURSIVE DecimalValues(_, _)
\* the integers written on the decimal lines lo..hi
DecimalValues(lo, hi) ==
    IF lo > hi THEN <<>>
    ELSE [i \in 1..Len(Items(lines[lo])) |-> digits_value(strip(Items(lines[lo])[i]), 10)]
             \o DecimalValues(lo + 1, hi)

\* a marker line, one or more lines of decimal literals, a '};' line
IsDecimalArray ==
    /\ Len(lines) >= 3
    /\ IsMarkerLine(lines[1])
    /\ IsTerminatorLine(lines[Len(lines)])
    /\ \A i \in 2..(Len(lines) - 1) : IsDecimalLine(lines[i])

\* C5 as stated: the non-negative integers (0 included) written as decimal
\* literals between a marker line and a '};' line are returned exactly, in
\* order; a line whose first token begins with a digit 0-9 is parsed base 10.
C5_AsStated ==
    (pc # "start" /\ IsDecimalArray) =>
        pc = "returned" /\ out = DecimalValues(2, Len(lines) - 1)

\* the leading token is neither 0x-prefixed nor begins with a decimal digit
IsMalformedLine(l) ==
    LET lead == split(strip(l))[1]
    IN /\ ~startswith(lead, <<"0", "x">>)
       /\ ~(lead # <<>> /\ lead[1] \in Digits(10))

RECURSIVE WellFormedValues(_, _)
\* the values of lines lo..hi where malformed lines contribute nothing
WellFormedValues(lo, hi) ==
    IF lo > hi THEN <<>>
    ELSE (IF IsMalformedLine(lines[lo]) THEN <<>> ELSE process_line(lines[lo]).out)
             \o WellFormedValues(lo + 1, hi)

\* the marker line comes before any '};' line, some candidate line is
\* malformed and no other candidate line raises
HasMalformedCandidate ==
    /\ HasMarker
    /\ \A j \in 1..(FirstMarker - 1) : ~IsTerminatorLine(lines[j])
    /\ \E i \in (FirstMarker + 1)..(FirstTerminator - 1) : IsMalformedLine(lines[i])
    /\ \A i \in (FirstMarker + 1)..(FirstTerminator - 1) :
           ~IsMalformedLine(lines[i]) => process_line(lines[i]).raised = NoError

\* C10 as stated: a candidate line whose leading token is neither 0x-prefixed
\* nor begins with a decimal digit (a blank line, a line holding only ',',
\* a line such as '{') contributes no values, raises no error, and the
\* extraction continues with the following lines.
C10_AsStated ==
    (pc # "start" /\ HasMalformedCandidate) =>
        /\ pc = "returned"
        /\ err = NoError
        /\ out = WellFormedValues(FirstMarker + 1, FirstTerminator - 1)

----------------------------------------------------------------------------
(* Properties of the driver, under SpecDriver *)

\* the sample after read, cut and rate reduction, before any re-encoding
BeforeEncoding ==
    LET r == read_file(lines, args.dec).out
        c == IF Truthy(args.cut) THEN CutTail(r, args.cut[1]) ELSE r
    IN IF Truthy(args.ratio) THEN reduce_samplerate(c, args.ratio[1]).out ELSE c

\* C6 as stated: with -wb and without -sr the run ends in a usage error
\* before the input file is read and before any transform or file write;
\* it never reaches read_file or write_wavefile.
C6_AsStated ==
    (args.wb # None /\ args.sr = None) =>
        /\ pc \in {"parse", "exit"}
        /\ pc = "exit" => err = "usage"
        /\ ~opened
        /\ wav = None

\* C7 as stated: with -r r and r <= 0 the run fails with an invalid-argument
\* error before any transform runs and never yields an output sequence.
C7_AsStated ==
    (args.ratio # None /\ args.ratio[1] <= 0) =>
        /\ pc \notin {"t", "print", "wb", "plt", "done"}
        /\ pc = "exit" => err # NoError
        /\ printed = None /\ wav = None /\ plotted = None

\* C8 as stated: whenever writeback is performed, with and without -t, the
\* sequence handed to write_wavefile is the unsigned sequence: the sample as
\* it was after read, cut and rate reduction, for sample values in 0..255.
C8_AsStated ==
    (/\ wav # None
     /\ wav[1].raised = NoError
     /\ \A i \in 1..Len(BeforeEncoding) :
            BeforeEncoding[i] \in 0..(2 * DefaultMaxValue + 1)) =>
        wav[1].data = BeforeEncoding

====
